---- MODULE Spec2Model ----
(***************************************************************************)
(* Model of tailwind.config.js: a CommonJS module whose body is the single *)
(* statement `module.exports = { ... }`.                                   *)
(*                                                                         *)
(* The file's text is the input of a load.  A load evaluates the object    *)
(* literal (property definitions left to right, array elements in source   *)
(* order) into a fresh heap object, or hands out the instance already in   *)
(* the module cache.  The consumer holds references to the loaded objects  *)
(* and reads their properties; the literal defines plain data properties   *)
(* only, so a read is a property get.                                      *)
(***************************************************************************)
EXTENDS Integers, Sequences, FiniteSets, TLC

\* ------------------------------------------------------------------ bounds

\* Loads (require calls) in one process.
MaxLoads == 2

\* Concurrent readers holding a reference to a loaded object.
NumWorkers == 2

Workers == 1..NumWorkers

\* ------------------------------------------------------------------ state

VARIABLES
  text,         \* the text of tailwind.config.js in this process
  heap,         \* the objects module evaluation has created, by reference
  moduleCache,  \* 0, or the reference of the cached module.exports
  loads,        \* what each load returned: the reference, and (history)
                \* whether a property read had happened before it
  seen          \* per worker and field: <<>> or <<the value last read>>

vars == <<text, heap, moduleCache, loads, seen>>

\* ------------------------------------------------- the text of the module

\* Mutant of tailwind_config: darkMode mistyped.
tailwind_config_DarkTypo ==
  [ content  |-> [ files |-> <<"src/**/*.rs", "index.html">> ],
    darkMode |-> "dark",
    theme    |-> [ extend |-> <<>> ],
    plugins  |-> <<>> ]

\* The literal as shipped (lines 2-11).
tailwind_config ==
  [ content  |-> [ files |-> <<"src/**/*.rs", "index.html">> ],
    darkMode |-> "media",
    theme    |-> [ extend |-> <<>> ],
    plugins  |-> <<>> ]

\* The same literal with other values in its four places.
Config(f, d, e, p) ==
  [ content  |-> [ files |-> f ],
    darkMode |-> d,
    theme    |-> [ extend |-> e ],
    plugins  |-> p ]

\* theme.extend as written: property definitions, category: { token: value }.
BrandExtend == << <<"colors", << <<"brand", "#123456">> >> >> >>

\* A category written twice: the later definition of "colors" replaces the
\* earlier one.
RepeatedExtend ==
  << <<"colors", << <<"brand", "#000000">> >> >>,
     <<"spacing", << <<"xl", "4rem">>, <<"xl", "5rem">> >> >>,
     <<"colors", << <<"brand", "#123456">> >> >> >>

\* The identity scenario: the shipped literal with the glob's extension abstracted.
IdentityScenario ==
  Config(<<"src/**/*.ext", "index.html">>, "media", <<>>, <<>>)

\* The texts the file may hold in a process: the shipped literal and edits of it.
Texts ==
  { tailwind_config,
    IdentityScenario,
    Config(<<"src/**/*.rs", "index.html">>, "class", RepeatedExtend, <<"pluginA", "pluginB">>),
    Config(<<"index.html", "src/**/*.rs">>, "media", BrandExtend, <<"pluginB", "pluginA">>),
    Config(<<>>, "media", <<>>, <<"pluginA">>),
    Config(<<"src/**/*.rs", "index.html">>, "auto", <<>>, <<>>) }

\* ------------------------------------------ evaluation of the literal

\* Mutant of ArrayLiteral: each element is put in front of the earlier ones.
RECURSIVE ArrayLiteral_Prepend(_)
ArrayLiteral_Prepend(elems) ==
  IF elems = <<>> THEN <<>>
  ELSE <<elems[Len(elems)]>> \o ArrayLiteral_Prepend(SubSeq(elems, 1, Len(elems) - 1))

\* An array literal: the elements are appended in source order.
RECURSIVE ArrayLiteral(_)
ArrayLiteral(elems) ==
  IF elems = <<>> THEN <<>>
  ELSE Append(ArrayLiteral(SubSeq(elems, 1, Len(elems) - 1)), elems[Len(elems)])

\* Defining property key on an object (own properties in insertion order):
\* an existing key keeps its place and takes the new value.
DefineProperty(obj, key, value) ==
  IF \E i \in DOMAIN obj : obj[i][1] = key
  THEN [ i \in DOMAIN obj |-> IF obj[i][1] = key THEN <<key, value>> ELSE obj[i] ]
  ELSE Append(obj, <<key, value>>)

\* An object literal of string values: its property definitions, left to right.
RECURSIVE ObjectLiteral(_)
ObjectLiteral(props) ==
  IF props = <<>> THEN <<>>
  ELSE LET last == props[Len(props)]
       IN  DefineProperty(ObjectLiteral(SubSeq(props, 1, Len(props) - 1)),
                          last[1], last[2])

\* theme.extend: an object literal whose values are object literals.
RECURSIVE ExtendLiteral(_)
ExtendLiteral(props) ==
  IF props = <<>> THEN <<>>
  ELSE LET last == props[Len(props)]
       IN  DefineProperty(ExtendLiteral(SubSeq(props, 1, Len(props) - 1)),
                          last[1], ObjectLiteral(last[2]))

\* Mutant of ModuleBody: the plugins are collected in reverse.
ModuleBody_PluginsReversed(src) ==
  [ content  |-> [ files |-> ArrayLiteral(src.content.files) ],
    darkMode |-> src.darkMode,
    theme    |-> [ extend |-> ExtendLiteral(src.theme.extend) ],
    plugins  |-> ArrayLiteral_Prepend(src.plugins) ]

\* Mutant of ModuleBody: the files array is a global that every evaluation
\* pushes its patterns onto.
ModuleBody_SharedFiles(src) ==
  [ content  |-> [ files |-> IF heap = <<>> THEN ArrayLiteral(src.content.files)
                             ELSE heap[Len(heap)].content.files
                                    \o ArrayLiteral(src.content.files) ],
    darkMode |-> src.darkMode,
    theme    |-> [ extend |-> ExtendLiteral(src.theme.extend) ],
    plugins  |-> ArrayLiteral(src.plugins) ]

\* The module body: the value assigned to module.exports.
ModuleBody(src) ==
  [ content  |-> [ files |-> ArrayLiteral(src.content.files) ],
    darkMode |-> src.darkMode,
    theme    |-> [ extend |-> ExtendLiteral(src.theme.extend) ],
    plugins  |-> ArrayLiteral(src.plugins) ]

\* The four fields of the object, by path.
Fields == { "content.files", "darkMode", "theme.extend", "plugins" }

\* A property get on a loaded object.
Get(obj, f) ==
  CASE f = "content.files" -> obj.content.files
    [] f = "darkMode"      -> obj.darkMode
    [] f = "theme.extend"  -> obj.theme.extend
    [] f = "plugins"       -> obj.plugins

\* ------------------------------------------------------------- operations

SomeRead == \E w \in Workers, f \in Fields : seen[w][f] # <<>>

Init ==
  /\ text \in Texts
  /\ heap = <<>>
  /\ moduleCache = 0
  /\ loads = <<>>
  /\ seen = [ w \in Workers |-> [ f \in Fields |-> <<>> ] ]

\* require("./tailwind.config.js") with a cached instance: no evaluation.
RequireCached ==
  /\ Len(loads) < MaxLoads
  /\ moduleCache # 0
  /\ loads' = Append(loads, [ ref |-> moduleCache, afterRead |-> SomeRead ])
  /\ UNCHANGED <<text, heap, moduleCache, seen>>

\* A load that evaluates the module body: the first load, or a load through a
\* fresh module registry.  The body runs to completion before the load returns.
RequireFresh ==
  /\ Len(loads) < MaxLoads
  /\ heap' = Append(heap, ModuleBody(text))
  /\ moduleCache' = Len(heap) + 1
  /\ loads' = Append(loads, [ ref |-> Len(heap) + 1, afterRead |-> SomeRead ])
  /\ UNCHANGED <<text, seen>>

\* Mutant of Read: reading content.files takes the first pattern off the array.
Read_Draining ==
  \E w \in Workers, i \in DOMAIN loads, f \in Fields :
    /\ seen' = [ seen EXCEPT ![w][f] = << Get(heap[loads[i].ref], f) >> ]
    /\ heap' = IF f = "content.files" /\ heap[loads[i].ref].content.files # <<>>
               THEN [ heap EXCEPT ![loads[i].ref].content.files = Tail(@) ]
               ELSE heap
    /\ UNCHANGED <<text, moduleCache, loads>>

\* A worker reads one field through a reference a load returned.
Read ==
  \E w \in Workers, i \in DOMAIN loads, f \in Fields :
    /\ seen' = [ seen EXCEPT ![w][f] = << Get(heap[loads[i].ref], f) >> ]
    /\ UNCHANGED <<text, heap, moduleCache, loads>>

Next == RequireCached \/ RequireFresh \/ Read

Spec == Init /\ [][Next]_vars

\* ------------------------------------------------------------- vocabulary

\* The object a load returned.
Loaded(i) == heap[loads[i].ref]

\* The validation policy's conditions for a ConfigurationError: a missing
\* required field, an empty content.files, an unrecognised darkMode.
RejectedByPolicy(obj) ==
  \/ DOMAIN obj # { "content", "darkMode", "theme", "plugins" }
  \/ obj.content.files = <<>>
  \/ obj.darkMode \notin { "media", "class" }

\* ------------------------------------------------------------------ claims

\* C4: once an object is loaded, each of its four fields keeps its value in
\* every later step: no load and no read changes an object already on the heap.
C4_ImmutableOnceLoaded ==
  [][ \A r \in DOMAIN heap :
        /\ r \in DOMAIN heap'
        /\ \A f \in Fields : Get(heap'[r], f) = Get(heap[r], f) ]_vars

\* C4 witness: an object was loaded, a worker has read all four fields of it,
\* and a later load has run after those reads.
C4_Witness ==
  /\ Len(loads) >= 2
  /\ loads[2].afterRead
  /\ \A f \in Fields : seen[1][f] = << Get(heap[1], f) >>

\* C5: loading the identity scenario returns an object whose four fields are
\* the literal inputs, content.files in the written order, and the policy
\* has nothing to reject in it.
C5_IdentityScenario ==
  text = IdentityScenario =>
    \A i \in DOMAIN loads :
      /\ loads[i].ref \in DOMAIN heap
      /\ Loaded(i).content.files = <<"src/**/*.ext", "index.html">>
      /\ Loaded(i).darkMode = "media"
      /\ Loaded(i).theme.extend = <<>>
      /\ Loaded(i).plugins = <<>>
      /\ ~RejectedByPolicy(Loaded(i))

\* C5 witness: the identity scenario has been loaded.
C5_Witness ==
  /\ text = IdentityScenario
  /\ loads # <<>>
  /\ Loaded(1).content.files[1] = "src/**/*.ext"

\* C7: for a text the policy accepts, the loaded plugins are the written
\* plugins, element by element in the written order; an empty plugins
\* sequence loads as the empty sequence.
C7_PluginsOrderPreserved ==
  ~RejectedByPolicy(text) =>
    \A i \in DOMAIN loads :
      /\ loads[i].ref \in DOMAIN heap
      /\ Len(Loaded(i).plugins) = Len(text.plugins)
      /\ \A k \in DOMAIN text.plugins : Loaded(i).plugins[k] = text.plugins[k]
      /\ (text.plugins = <<>> => Loaded(i).plugins = <<>>)

\* C7 witness: a text with plugins pluginA, pluginB has been loaded and a
\* worker has read the plugins in that order.
C7_Witness ==
  /\ ~RejectedByPolicy(text)
  /\ text.plugins = <<"pluginA", "pluginB">>
  /\ loads # <<>>
  /\ \E w \in Workers : seen[w]["plugins"] = << <<"pluginA", "pluginB">> >>

\* C8: any two loads of the text in one process return objects equal field
\* by field, whether or not the second evaluated the module again and
\* whatever was read in between.
C8_LoadsFieldwiseEqual ==
  \A i, j \in DOMAIN loads :
    \A f \in Fields : Get(Loaded(i), f) = Get(Loaded(j), f)

\* C8 witness: two loads that each evaluated the module, with a read between.
C8_Witness ==
  /\ Len(loads) >= 2
  /\ loads[1].ref # loads[2].ref
  /\ ~loads[1].afterRead
  /\ loads[2].afterRead

\* C10: the shipped literal loads as an object with exactly the four
\* top-level keys, content.files = ["src/**/*.rs", "index.html"] (non-empty)
\* and darkMode = "media" (recognised): the policy rejects nothing in it.
C10_ShippedLiteralValid ==
  text = tailwind_config =>
    \A i \in DOMAIN loads :
      /\ DOMAIN Loaded(i) = { "content", "darkMode", "theme", "plugins" }
      /\ Loaded(i).content.files = <<"src/**/*.rs", "index.html">>
      /\ Loaded(i).content.files # <<>>
      /\ Loaded(i).darkMode = "media"
      /\ Loaded(i).darkMode \in { "media", "class" }
      /\ ~RejectedByPolicy(Loaded(i))

\* C10 witness: the shipped literal has been loaded and its darkMode read.
C10_Witness ==
  /\ text = tailwind_config
  /\ loads # <<>>
  /\ \E w \in Workers : seen[w]["darkMode"] = << "media" >>

====
